---------------------------- MODULE Spec2Model ----------------------------
(***************************************************************************)
(* Model of aws-keyrotation.py (AWS KeyRotation Enforcer).                 *)
(*                                                                         *)
(* One invocation of lambda_handler is a sequential pipeline:              *)
(*   read NOTIFYKEYAGE, compute the two dates  -> list_users (paginated)   *)
(*   -> list_access_keys / get_user per user   -> classify every key and   *)
(*   notify (SES send_email) or deactivate (IAM update_access_key).        *)
(* The IAM account (users, tags, keys) and the process environment are the *)
(* inputs; every IAM call may raise, and so may send_email.  Up to two     *)
(* invocations run against the same account, one after the other or        *)
(* overlapping.  Time is counted in days: a date is its proleptic          *)
(* Gregorian ordinal (datetime.toordinal(), day 1 is 0001-01-01).  Strings *)
(* that the code parses (NOTIFYKEYAGE, SOURCEMAIL) are sequences of        *)
(* one-character strings over ASCII.                                       *)
(***************************************************************************)
EXTENDS Integers, Sequences, FiniteSets

\* ------------------------------------------------------------ bounds
MaxUsers == 2
MaxKeys == 2

\* ------------------------------------------------- program constants
DefaultNotifyKeyAge == 30
GraceDays == 7

\* --------------------------------------------------------- universes
UserNames == <<"alice", "bob", "carol", "dave">>
KeyIds == <<"AKIA1", "AKIA2", "AKIA3", "AKIA4">>
Runs == {1, 2}

Users == {UserNames[i] : i \in 1..MaxUsers}

Min(a, b) == IF a < b THEN a ELSE b

\* ------------------------------------------------------ pure helpers

Digits == {"0", "1", "2", "3", "4", "5", "6", "7", "8", "9"}

DigitValue(c) ==
    CASE c = "0" -> 0 [] c = "1" -> 1 [] c = "2" -> 2 [] c = "3" -> 3
      [] c = "4" -> 4 [] c = "5" -> 5 [] c = "6" -> 6 [] c = "7" -> 7
      [] c = "8" -> 8 [] c = "9" -> 9

RECURSIVE DecimalValue(_)
DecimalValue(s) ==
    IF Len(s) = 0 THEN 0
    ELSE 10 * DecimalValue(SubSeq(s, 1, Len(s) - 1)) + DigitValue(s[Len(s)])

\* The white space int() strips from both ends of its text: space, tab,
\* line feed, carriage return, form feed and the vertical tab (ASCII 11,
\* written as the character itself in the last string).
Whitespace == {" ", "\t", "\n", "\r", "\f", ""}

\* text.strip(): without its leading and trailing white space.
Strip(s) ==
    LET inked == {i \in 1..Len(s) : s[i] \notin Whitespace}
    IN  IF inked = {} THEN <<>>
        ELSE SubSeq(s, CHOOSE i \in inked : \A j \in inked : i <= j,
                       CHOOSE i \in inked : \A j \in inked : i >= j)

\* The text after its optional sign.
Unsigned(s) == IF Len(s) > 0 /\ s[1] \in {"+", "-"} THEN Tail(s) ELSE s

\* The digits of a literal, without the underscores that group them.
DigitsOf(s) == SelectSeq(s, LAMBDA c : c \in Digits)

\* The digits without leading zeros.
RECURSIVE Significant(_)
Significant(d) ==
    IF Len(d) > 0 /\ d[1] = "0" THEN Significant(Tail(d)) ELSE d

\* int(text) succeeds: inside the surrounding white space, an optional sign
\* followed by digits, with single underscores allowed between two digits,
\* and no more digits than int() converts (4300).
IsIntLiteral(s) ==
    LET body == Unsigned(Strip(s))
    IN  /\ Len(body) > 0
        /\ \A i \in 1..Len(body) : body[i] \in Digits \cup {"_"}
        /\ body[1] # "_"
        /\ body[Len(body)] # "_"
        /\ \A i \in 1..(Len(body) - 1) : ~(body[i] = "_" /\ body[i + 1] = "_")
        /\ Len(DigitsOf(body)) <= 4300

\* The magnitude of the literal is beyond timedelta's days (999999999).
IsHugeLiteral(s) == Len(Significant(DigitsOf(Strip(s)))) > 9

\* int(text), for a literal that is not huge.
IntValue(s) ==
    LET magnitude == DecimalValue(Significant(DigitsOf(Strip(s))))
    IN  IF Strip(s)[1] = "-" THEN 0 - magnitude ELSE magnitude

\* datetime.now() - timedelta(days=ageDays) is defined: timedelta takes the
\* days and the result lies between datetime.min and datetime.max.
\* Otherwise the expression raises OverflowError.
DateDefined(now, ageDays) ==
    /\ ageDays >= 0 - 999999999
    /\ ageDays <= 999999999
    /\ now - ageDays >= 1
    /\ now - ageDays <= 3652059

Letters ==
    {"a", "b", "c", "d", "e", "f", "g", "h", "i", "j", "k", "l", "m",
     "n", "o", "p", "q", "r", "s", "t", "u", "v", "w", "x", "y", "z",
     "A", "B", "C", "D", "E", "F", "G", "H", "I", "J", "K", "L", "M",
     "N", "O", "P", "Q", "R", "S", "T", "U", "V", "W", "X", "Y", "Z"}

LocalChars == Letters \cup Digits \cup {"_", ".", "+", "-"}
HostChars == Letters \cup Digits \cup {"-"}
TailChars == Letters \cup Digits \cup {"-", "."}

\* Mutant of MailPatternMatches: the pattern without its "\.[a-zA-Z0-9-.]+"
\* part, so that local@host is accepted.
MailPatternNoTld(s) ==
    \E a \in 2..(Len(s) - 1) :
        /\ s[a] = "@"
        /\ \A i \in 1..(a - 1) : s[i] \in LocalChars
        /\ \A i \in (a + 1)..Len(s) : s[i] \in TailChars

\* re.match(mailPattern, s) is not None, for
\*   ^[a-zA-Z0-9_.+-]+@[a-zA-Z0-9-]+\.[a-zA-Z0-9-.]+$
\* "$" matches at the end of the string and also just before one final "\n".
MailPatternMatches(s) ==
    LET ends == {Len(s)} \cup
                (IF Len(s) > 0 /\ s[Len(s)] = "\n" THEN {Len(s) - 1} ELSE {})
    IN  \E e \in ends : \E a \in 2..e : \E d \in (a + 2)..(e - 1) :
            /\ s[a] = "@"
            /\ s[d] = "."
            /\ \A i \in 1..(a - 1) : s[i] \in LocalChars
            /\ \A i \in (a + 1)..(d - 1) : s[i] \in HostChars
            /\ \A i \in (d + 1)..e : s[i] \in TailChars


\* The e-mail address found in the "Contact" tag of a get_user response, or
\* "" when the user has no Tags at all or no tag named Contact.
RECURSIVE FirstContact(_)
FirstContact(tags) ==
    IF Len(tags) = 0 THEN ""
    ELSE IF Head(tags).Key = "Contact" THEN Head(tags).Value
    ELSE FirstContact(Tail(tags))

\* Mutant of GetUserEmail: the value of the first tag, whatever its key.
GetUserEmailFirstTag(getUserResponse) ==
    IF "Tags" \in DOMAIN getUserResponse.User
       /\ Len(getUserResponse.User.Tags) > 0
    THEN getUserResponse.User.Tags[1].Value
    ELSE ""

GetUserEmail(getUserResponse) ==
    IF "Tags" \in DOMAIN getUserResponse.User
    THEN FirstContact(getUserResponse.User.Tags)
    ELSE ""

\* Mutant of NotifyCondition: the status test is missing.
NotifyConditionAnyStatus(accessKeyInfo, notifyDate, deactivateDate) ==
    /\ accessKeyInfo.CreateDate < notifyDate
    /\ ~(accessKeyInfo.CreateDate < deactivateDate)

\* The condition of the "if" branch of __identifyKeyAges (notify).
NotifyCondition(accessKeyInfo, notifyDate, deactivateDate) ==
    /\ accessKeyInfo.CreateDate < notifyDate
    /\ ~(accessKeyInfo.CreateDate < deactivateDate)
    /\ accessKeyInfo.AccessKeyStatus = "Active"

\* Mutants of DeactivateCondition: only keys with a contact are deactivated;
\* the status test is missing.
DeactivateConditionContactGated(accessKeyInfo, deactivateDate) ==
    /\ accessKeyInfo.CreateDate < deactivateDate
    /\ accessKeyInfo.AccessKeyStatus = "Active"
    /\ accessKeyInfo.ContactDetails # ""

DeactivateConditionAnyStatus(accessKeyInfo, deactivateDate) ==
    accessKeyInfo.CreateDate < deactivateDate

\* The condition of the "elif" branch of __identifyKeyAges (deactivate).
DeactivateCondition(accessKeyInfo, deactivateDate) ==
    /\ accessKeyInfo.CreateDate < deactivateDate
    /\ accessKeyInfo.AccessKeyStatus = "Active"

\* Mutant of SendEmailRequest: the mail goes to the sender.
SendEmailRequestToSender(sourceMail, keyInfo) ==
    [Source  |-> sourceMail,
     To      |-> <<sourceMail>>,
     Subject |-> <<"Rotate your AWS Credentials (KeyID: ", keyInfo.AccessKeyId, ")">>,
     Body    |-> <<"Dear ", keyInfo.ContactDetails,
                   ",\n\nPlease rotate your AWS Access Key immediately.\n It will be disabled otherwise shortly if not rotated.\n\n Your AWS Keyrotation Service">>]

\* The arguments of sesClient.send_email.
SendEmailRequest(sourceMail, keyInfo) ==
    [Source  |-> sourceMail,
     To      |-> <<keyInfo.ContactDetails>>,
     Subject |-> <<"Rotate your AWS Credentials (KeyID: ", keyInfo.AccessKeyId, ")">>,
     Body    |-> <<"Dear ", keyInfo.ContactDetails,
                   ",\n\nPlease rotate your AWS Access Key immediately.\n It will be disabled otherwise shortly if not rotated.\n\n Your AWS Keyrotation Service">>]

\* Mutant of UpdateAccessKey: every key of the user is updated.
UpdateAccessKeyAllOfUser(keys, userName, accessKeyId, status) ==
    [i \in DOMAIN keys |->
        IF keys[i].UserName = userName
        THEN [keys[i] EXCEPT !.Status = status]
        ELSE keys[i]]

\* IAM's update_access_key(UserName, AccessKeyId, Status) on the key table.
UpdateAccessKey(keys, userName, accessKeyId, status) ==
    [i \in DOMAIN keys |->
        IF keys[i].UserName = userName /\ keys[i].AccessKeyId = accessKeyId
        THEN [keys[i] EXCEPT !.Status = status]
        ELSE keys[i]]

\* Mutant of AfterProviderCall: the error is swallowed.
AfterProviderCallSwallowed(raised, nextPc) == nextPc

\* Mutant of AfterSendEmail: the error leaves __notifyKeyAges.
AfterSendEmailPropagates(raised, nextPc) == IF raised THEN "failed" ELSE nextPc

\* No IAM call of lambda_handler is inside a try: a raised call ends the run.
AfterProviderCall(raised, nextPc) == IF raised THEN "failed" ELSE nextPc

\* send_email sits in "try: ... except:", so the run goes on either way.
AfterSendEmail(raised, nextPc) == nextPc

\* One entry of a run's call trace.
Call(api, userName, accessKeyId, status, mail, raised) ==
    [api |-> api, UserName |-> userName, AccessKeyId |-> accessKeyId,
     Status |-> status, Source |-> mail.Source, To |-> mail.To,
     Subject |-> mail.Subject, Body |-> mail.Body, raised |-> raised]

NoMail == [Source |-> <<>>, To |-> <<>>, Subject |-> <<>>, Body |-> <<>>]

IamCall(api, userName, raised) == Call(api, userName, "", "", NoMail, raised)

\* The calls __notifyKeyAges makes for keyInfo, after the entry that records
\* the call of __notifyKeyAges itself: send_email, unless SOURCEMAIL is unset
\* or does not match the pattern.
NotifyKeyAges(sourceMailEnv, keyInfo, raised) ==
    <<Call("notifyKeyAges", "", keyInfo.AccessKeyId, "",
           [NoMail EXCEPT !.To = <<keyInfo.ContactDetails>>], FALSE)>> \o
    (IF sourceMailEnv.set /\ MailPatternMatches(sourceMailEnv.value)
     THEN <<Call("send_email", "", "", "",
                 SendEmailRequest(sourceMailEnv.value, keyInfo), raised)>>
     ELSE <<>>)

IamApis == {"list_users", "list_access_keys", "get_user", "update_access_key"}

\* ------------------------------------------------------------- state
VARIABLES
    environ,               \* os.environ: NOTIFYKEYAGE and SOURCEMAIL
    clock,                 \* datetime.now(), in days
    pageSize,              \* users per list_users page (the provider's)
    iamUsers,              \* IAM: user name -> the User of get_user
    accessKeys,            \* IAM: the account's access keys
    scheduled,             \* the invocations the scheduler triggers
    pc,                    \* per run: where lambda_handler is
    error,                 \* per run: the exception that left lambda_handler
    notifyKeyAgeDate,      \* per run
    deactivateKeyAgeDate,  \* per run
    response,              \* per run: the last list_users response
    users,                 \* per run: __getAwsIamUserList's users
    userIdx,               \* per run: loop index of __getAwsAccessKeyAge
    keysResponse,          \* per run: the last list_access_keys response
    accessKeyInfos,        \* per run: the current user's accessKeyInfos
    iamAccessKeys,         \* per run: the inventory, iamAccessKeys['Keys']
    keyPos,                \* per run: loop indices of __identifyKeyAges
    trace,                 \* per run: the calls made, in order
    accessKeys0,           \* history: accessKeys before the first invocation
    completedBefore        \* history, per run: the runs done when it began

acctVars == <<environ, pageSize, iamUsers, scheduled, accessKeys0>>
runVars == <<pc, error, notifyKeyAgeDate, deactivateKeyAgeDate, response,
             users, userIdx, keysResponse, accessKeyInfos, iamAccessKeys,
             keyPos, trace>>
vars == <<environ, clock, pageSize, iamUsers, accessKeys, scheduled, pc,
          error, notifyKeyAgeDate, deactivateKeyAgeDate, response, users,
          userIdx, keysResponse, accessKeyInfos, iamAccessKeys, keyPos, trace,
          accessKeys0, completedBefore>>

\* ------------------------------------------------------------ inputs
Unset == [set |-> FALSE, value |-> <<>>]
EnvValue(s) == [set |-> TRUE, value |-> s]

ContactAddrs == <<"alice@x.com", "bob@x.com", "carol@x.com", "dave@x.com">>
UserIndex(u) == CHOOSE i \in 1..Len(UserNames) : UserNames[i] = u

\* The User that get_user returns: without Tags, with a Contact behind
\* another tag, with tags but no Contact, and with an empty Contact.
UserDetails(u) ==
    <<[UserName |-> u],
      [UserName |-> u, Tags |-> <<[Key |-> "Team", Value |-> "ops"],
                                 [Key |-> "Contact",
                                  Value |-> ContactAddrs[UserIndex(u)]]>>],
      [UserName |-> u, Tags |-> <<[Key |-> "Team", Value |-> "ops"]>>],
      [UserName |-> u, Tags |-> <<[Key |-> "Contact", Value |-> ""]>>]>>

\* Positions in UserDetails: all of them, the first two (no Tags, or a
\* Contact behind another tag), and those with a contact address.
AnyUserDetails == DOMAIN UserDetails(UserNames[1])
ContactOrNoTags == {i \in AnyUserDetails : i <= 2}
ContactTagged ==
    {i \in AnyUserDetails :
        GetUserEmail([User |-> UserDetails(UserNames[1])[i]]) # ""}

ValidSourceMail == <<"a", ".", "b", "-", "c", "@", "d", "-", "e", ".", "c", "o", "m">>
NoTldSourceMail == <<"a", "@", "b">>

\* SOURCEMAIL values that Python's re.match accepts for mailPattern, and
\* values it rejects (listed from Python's own verdicts, independently of MailPatternMatches).
AcceptedSourceMails ==
    {<<"a", ".", "b", "-", "c", "@", "d", "-", "e", ".", "c", "o", "m">>,
     <<"a", "@", "b", ".", "c">>,
     <<"a", "+", "b", "_", "c", "@", "d", ".", "e", "-", "f">>,
     <<"a", "@", "b", ".", "c", "\n">>,
     <<"a", "@", "b", ".", ".">>,
     <<"A", "1", "@", "b", "2", ".", "c", "3", ".", "d", "4">>}

RejectedSourceMails ==
    {<<>>,
     <<"n", "o", "t", "-", "a", "n", "-", "e", "m", "a", "i", "l">>,
     <<"a", "@", "b">>,
     <<"@", "b", ".", "c">>,
     <<"a", "@", ".", "c">>,
     <<"a", "@", "b", ".">>,
     <<"a", "@", "b", "_", "c", ".", "d">>,
     <<"a", " ", "b", "@", "c", ".", "d">>,
     <<"a", "@", "b", ".", "c", "\n", "\n">>,
     <<"a", "@", "b", ".", "c", "@", "d", ".", "e">>,
     <<" ", "a", "@", "b", ".", "c">>,
     <<"a", "@", "b", ".", "c", " ">>}

\* Days the clock advances between the two datetime.now() of one invocation.
ClockDrifts == {0, 1}

\* Key tables: MaxKeys keys, listed in the order of their owners, each with
\* one of the given <<status, age>> options.
KeyTables(now, keyOptions) ==
    {[i \in 1..MaxKeys |->
        [AccessKeyId |-> KeyIds[i], UserName |-> UserNames[o[i]],
         Status |-> k[i][1], CreateDate |-> now - k[i][2]]] :
        o \in {f \in [1..MaxKeys -> 1..MaxUsers] :
                  \A i \in 1..(MaxKeys - 1) : f[i] <= f[i + 1]},
        k \in [1..MaxKeys -> keyOptions]}

\* details holds the positions in UserDetails(u) that get_user may return for
\* u.  get_user is only ever called for the owner of a key, so a user without
\* keys gets the first.
InitWith(environs, pageSizes, details, keyOptions, sched) ==
    /\ environ \in environs
    /\ clock = 739919
    /\ pageSize \in pageSizes
    /\ accessKeys \in KeyTables(clock, keyOptions)
    /\ iamUsers \in
          {[u \in Users |-> UserDetails(u)[c[u]]] :
              c \in {d \in [Users -> details \cup {1}] :
                        \A u \in Users :
                            IF \A i \in DOMAIN accessKeys :
                                  accessKeys[i].UserName # u
                            THEN d[u] = 1
                            ELSE d[u] \in details}}
    /\ scheduled = sched
    /\ pc = [r \in Runs |-> "idle"]
    /\ error = [r \in Runs |-> ""]
    /\ notifyKeyAgeDate = [r \in Runs |-> 0]
    /\ deactivateKeyAgeDate = [r \in Runs |-> 0]
    /\ response = [r \in Runs |-> [IsTruncated |-> FALSE]]
    /\ users = [r \in Runs |-> <<>>]
    /\ userIdx = [r \in Runs |-> 1]
    /\ keysResponse = [r \in Runs |-> [AccessKeyMetadata |-> <<>>]]
    /\ accessKeyInfos = [r \in Runs |-> <<>>]
    /\ iamAccessKeys = [r \in Runs |-> <<>>]
    /\ keyPos = [r \in Runs |-> <<1, 1>>]
    /\ trace = [r \in Runs |-> <<>>]
    /\ accessKeys0 = accessKeys
    /\ completedBefore = [r \in Runs |-> {}]

Environ(notifyKeyAge, sourceMail) ==
    [NOTIFYKEYAGE |-> notifyKeyAge, SOURCEMAIL |-> sourceMail]

\* A listing cut into several pages never gets past the inventory (see
\* ListAccessKeysTypeError), so those accounts need no variety in their keys.
InitPaged(details, sched) ==
    InitWith({Environ(Unset, EnvValue(ValidSourceMail))},
             1..(MaxUsers - 1),
             details,
             {<<"Active", 40>>},
             sched)

\* NOTIFYKEYAGE texts: integers as int() reads them (white space, a sign,
\* grouped digits, leading zeros), texts it refuses, and ages whose dates
\* do not exist.
NotifyKeyAgeTexts ==
    {<<" ", "3", "3">>, <<"3", "3", "\n">>, <<"\t", "3", "_", "3", "\r">>,
     <<"\f", "3", "3">>} \cup
    {<<w, "-", "3">> : w \in Whitespace} \cup
    {<<"3", "3", w>> : w \in Whitespace} \cup
    {<<"+", "3", "3">>, <<"-", "3">>, <<"0", "0", "3", "5">>,
     <<"x">>, <<>>, <<" ">>, <<"3", "_", "_", "3">>, <<"_", "3">>,
     <<"3", "_">>, <<"-", " ", "3">>, <<"3", " ", "3">>, <<"+", "-", "3">>,
     <<"8", "0", "0", "0", "0", "0">>, <<"7", "3", "9", "9", "1", "5">>,
     <<"-", "3", "0", "0", "0", "0", "0", "0">>,
     <<"1", "0", "0", "0", "0", "0", "0", "0", "0", "0">>}

\* One text that int() refuses, one whose notify date does not exist, one
\* whose deactivate date alone does not exist, and one integer.
FewNotifyKeyAgeTexts ==
    {<<"x">>, <<"8", "0", "0", "0", "0", "0">>,
     <<"7", "3", "9", "9", "1", "5">>, <<"0", "0", "3", "5">>}

\* Accounts of old keys without contacts, one per NOTIFYKEYAGE text.
InitNotifyKeyAge(texts, sched) ==
    InitWith({Environ(EnvValue(t), Unset) : t \in texts},
             {MaxUsers},
             {1},
             {<<"Active", 40>>},
             sched)

\* One invocation.
Init ==
    \/ InitWith({Environ(Unset, EnvValue(ValidSourceMail)),
                 Environ(Unset, Unset),
                 Environ(EnvValue(<<"3", "3">>), EnvValue(NoTldSourceMail))},
                {MaxUsers},
                AnyUserDetails,
                ({"Active"} \X {32, 37, 40}) \cup ({"Inactive"} \X {32, 40}),
                {1})
    \/ InitPaged(AnyUserDetails, {1})
    \/ InitNotifyKeyAge(NotifyKeyAgeTexts, {1})

\* ----------------------------------------------------------- actions

\* IAM's list_users: the page that starts at marker.
AllUsers == [i \in 1..MaxUsers |-> [UserName |-> UserNames[i]]]

ListUsersResponse(marker) ==
    LET last == Min(marker + pageSize - 1, MaxUsers)
    IN  IF last < MaxUsers
        THEN [Users |-> SubSeq(AllUsers, marker, last), IsTruncated |-> TRUE,
              Marker |-> last + 1]
        ELSE [Users |-> SubSeq(AllUsers, marker, last), IsTruncated |-> FALSE]

\* users.append(response['Users']): the page becomes ONE element of users,
\* a list object, here [list |-> page].
AppendPage(us, page) == Append(us, [list |-> page])

\* IAM's list_access_keys(UserName).
ListAccessKeysResponse(userName) ==
    [AccessKeyMetadata |->
        SelectSeq(accessKeys, LAMBDA k : k.UserName = userName)]

GetUserResponse(userName) == [User |-> iamUsers[userName]]

\* The dict __getAwsAccessKeyAge appends to accessKeyInfos for one key.
AccessKeyInfo(accessKey, contactDetails) ==
    [AccessKeyId |-> accessKey.AccessKeyId,
     AccessKeyStatus |-> accessKey.Status,
     CreateDate |-> accessKey.CreateDate,
     ContactDetails |-> contactDetails]

\* The inventory at the end of one round of the user loop.
AppendUserKeys(inv, userName, infos) ==
    IF Len(infos) > 0
    THEN Append(inv, [UserName |-> userName, AccessKeyInfos |-> infos])
    ELSE inv

\* Where the run is once the user loop stands at idx, with inventory inv.
PcAfterUser(us, idx, inv) ==
    IF idx <= Len(us) THEN "access_keys"
    ELSE IF Len(inv) = 0 THEN "done" ELSE "identify"

\* The loop indices of __identifyKeyAges after the key at pos.
NextKeyPos(inv, pos) ==
    IF pos[2] < Len(inv[pos[1]].AccessKeyInfos)
    THEN <<pos[1], pos[2] + 1>>
    ELSE <<pos[1] + 1, 1>>

PcAfterKey(inv, pos) ==
    IF NextKeyPos(inv, pos)[1] <= Len(inv) THEN "identify" ELSE "done"

CurrentEntry(r) == iamAccessKeys[r][keyPos[r][1]]
CurrentInfo(r) == CurrentEntry(r).AccessKeyInfos[keyPos[r][2]]

\* NOTIFYKEYAGE is unset, or a literal whose value timedelta may take.
NotifyKeyAgeRead ==
    \/ ~environ.NOTIFYKEYAGE.set
    \/ /\ IsIntLiteral(environ.NOTIFYKEYAGE.value)
       /\ ~IsHugeLiteral(environ.NOTIFYKEYAGE.value)

\* notifyKeyAge of lambda_handler.
NotifyKeyAge ==
    IF environ.NOTIFYKEYAGE.set THEN IntValue(environ.NOTIFYKEYAGE.value)
    ELSE DefaultNotifyKeyAge

\* lambda_handler up to line 183: NOTIFYKEYAGE is unset or an integer, and
\* the notify date comes from a first read of the clock.
Invoke(r) ==
    /\ pc[r] = "idle"
    /\ r \in scheduled
    /\ r = 1 \/ pc[1] # "idle"
    /\ NotifyKeyAgeRead
    /\ DateDefined(clock, NotifyKeyAge)
    /\ notifyKeyAgeDate' =
          [notifyKeyAgeDate EXCEPT ![r] = clock - NotifyKeyAge]
    /\ pc' = [pc EXCEPT ![r] = "deactivate_date"]
    /\ completedBefore' =
          [completedBefore EXCEPT ![r] = {q \in Runs : pc[q] = "done"}]
    /\ UNCHANGED <<acctVars, keysResponse, accessKeyInfos, clock, accessKeys,
                   error, deactivateKeyAgeDate, response, users, userIdx,
                   iamAccessKeys, keyPos, trace>>

\* Line 184: the deactivate date comes from a second read of the clock,
\* which may have advanced.
GetDeactivateKeyAgeDate(r) ==
    /\ pc[r] = "deactivate_date"
    /\ LET deactivateKeyAge == NotifyKeyAge + GraceDays
       IN  \E drift \in ClockDrifts :
              /\ DateDefined(clock + drift, deactivateKeyAge)
              /\ deactivateKeyAgeDate' =
                    [deactivateKeyAgeDate EXCEPT
                        ![r] = (clock + drift) - deactivateKeyAge]
              /\ clock' = clock + drift
    /\ pc' = [pc EXCEPT ![r] = "list_users"]
    /\ UNCHANGED <<acctVars, keysResponse, accessKeyInfos, completedBefore,
                   accessKeys, error, notifyKeyAgeDate, response, users,
                   userIdx, iamAccessKeys, keyPos, trace>>

\* int(os.environ['NOTIFYKEYAGE']) raises ValueError: only KeyError is caught.
InvokeValueError(r) ==
    /\ pc[r] = "idle"
    /\ r \in scheduled
    /\ r = 1 \/ pc[1] # "idle"
    /\ environ.NOTIFYKEYAGE.set
    /\ ~IsIntLiteral(environ.NOTIFYKEYAGE.value)
    /\ pc' = [pc EXCEPT ![r] = "failed"]
    /\ error' = [error EXCEPT ![r] = "ValueError"]
    /\ UNCHANGED <<acctVars, keysResponse, accessKeyInfos, completedBefore,
                   clock, accessKeys, notifyKeyAgeDate,
                   deactivateKeyAgeDate, response, users, userIdx,
                   iamAccessKeys, keyPos, trace>>

\* Line 183: datetime.now() - timedelta(days=notifyKeyAge) raises
\* OverflowError.
InvokeOverflowError(r) ==
    /\ pc[r] = "idle"
    /\ r \in scheduled
    /\ r = 1 \/ pc[1] # "idle"
    /\ environ.NOTIFYKEYAGE.set => IsIntLiteral(environ.NOTIFYKEYAGE.value)
    /\ ~NotifyKeyAgeRead \/ ~DateDefined(clock, NotifyKeyAge)
    /\ pc' = [pc EXCEPT ![r] = "failed"]
    /\ error' = [error EXCEPT ![r] = "OverflowError"]
    /\ UNCHANGED <<acctVars, keysResponse, accessKeyInfos, completedBefore,
                   clock, accessKeys, notifyKeyAgeDate,
                   deactivateKeyAgeDate, response, users, userIdx,
                   iamAccessKeys, keyPos, trace>>

\* Line 184: datetime.now() - timedelta(days=deactivateKeyAge) raises
\* OverflowError; the notify date has been assigned.
GetDeactivateKeyAgeDateOverflowError(r) ==
    /\ pc[r] = "deactivate_date"
    /\ \E drift \in ClockDrifts :
          /\ ~DateDefined(clock + drift, NotifyKeyAge + GraceDays)
          /\ clock' = clock + drift
    /\ pc' = [pc EXCEPT ![r] = "failed"]
    /\ error' = [error EXCEPT ![r] = "OverflowError"]
    /\ UNCHANGED <<acctVars, keysResponse, accessKeyInfos, completedBefore,
                   accessKeys, notifyKeyAgeDate,
                   deactivateKeyAgeDate, response, users, userIdx,
                   iamAccessKeys, keyPos, trace>>

\* __getAwsIamUserList: the first list_users call.
ListUsersFirst(r) ==
    /\ pc[r] = "list_users"
    /\ \E raised \in BOOLEAN :
          /\ trace' = [trace EXCEPT
                          ![r] = Append(@, IamCall("list_users", "", raised))]
          /\ error' = [error EXCEPT
                          ![r] = IF raised THEN "ClientError" ELSE @]
          /\ IF raised
             THEN /\ pc' = [pc EXCEPT ![r] = AfterProviderCall(TRUE, "list_users")]
                  /\ UNCHANGED <<response, users>>
             ELSE LET resp == ListUsersResponse(1)
                  IN  /\ response' = [response EXCEPT ![r] = resp]
                      /\ users' = [users EXCEPT ![r] = resp.Users]
                      /\ pc' = [pc EXCEPT ![r] =
                                  AfterProviderCall(FALSE,
                                      IF resp.IsTruncated THEN "list_users_loop"
                                      ELSE PcAfterUser(resp.Users, 1, <<>>))]
    /\ UNCHANGED <<acctVars, keysResponse, accessKeyInfos, completedBefore,
                   clock, accessKeys, notifyKeyAgeDate,
                   deactivateKeyAgeDate, userIdx, iamAccessKeys, keyPos>>

\* __getAwsIamUserList: one round of "while response['IsTruncated']".
ListUsersNext(r) ==
    /\ pc[r] = "list_users_loop"
    /\ response[r].IsTruncated
    /\ \E raised \in BOOLEAN :
          /\ trace' = [trace EXCEPT
                          ![r] = Append(@, IamCall("list_users", "", raised))]
          /\ error' = [error EXCEPT
                          ![r] = IF raised THEN "ClientError" ELSE @]
          /\ IF raised
             THEN /\ pc' = [pc EXCEPT ![r] = AfterProviderCall(TRUE, "list_users_loop")]
                  /\ UNCHANGED <<response, users>>
             ELSE LET resp == ListUsersResponse(response[r].Marker)
                      us == AppendPage(users[r], resp.Users)
                  IN  /\ response' = [response EXCEPT ![r] = resp]
                      /\ users' = [users EXCEPT ![r] = us]
                      /\ pc' = [pc EXCEPT ![r] =
                                  AfterProviderCall(FALSE,
                                      IF resp.IsTruncated THEN "list_users_loop"
                                      ELSE PcAfterUser(us, 1, <<>>))]
    /\ UNCHANGED <<acctVars, keysResponse, accessKeyInfos, completedBefore,
                   clock, accessKeys, notifyKeyAgeDate,
                   deactivateKeyAgeDate, userIdx, iamAccessKeys, keyPos>>

\* __getAwsAccessKeyAge: a round of "for iamUser in iamUsers" begins with
\* list_access_keys; a user without keys ends the round at once.
ListAccessKeys(r) ==
    /\ pc[r] = "access_keys"
    /\ "UserName" \in DOMAIN users[r][userIdx[r]]
    /\ LET userName == users[r][userIdx[r]].UserName
           resp == ListAccessKeysResponse(userName)
       IN  /\ trace' = [trace EXCEPT
                           ![r] = Append(@, IamCall("list_access_keys",
                                                    userName, FALSE))]
           /\ IF Len(resp.AccessKeyMetadata) > 0
              THEN /\ keysResponse' = [keysResponse EXCEPT ![r] = resp]
                   /\ pc' = [pc EXCEPT
                                ![r] = AfterProviderCall(FALSE, "get_user")]
                   /\ UNCHANGED userIdx
              ELSE /\ userIdx' = [userIdx EXCEPT ![r] = @ + 1]
                   /\ pc' = [pc EXCEPT ![r] =
                               AfterProviderCall(FALSE,
                                   PcAfterUser(users[r], userIdx[r] + 1,
                                               iamAccessKeys[r]))]
                   /\ UNCHANGED keysResponse
    /\ UNCHANGED <<acctVars, accessKeyInfos, iamAccessKeys, completedBefore,
                   clock, accessKeys, error, notifyKeyAgeDate,
                   deactivateKeyAgeDate, response, users, keyPos>>

\* list_access_keys raises.
ListAccessKeysRaises(r) ==
    /\ pc[r] = "access_keys"
    /\ "UserName" \in DOMAIN users[r][userIdx[r]]
    /\ LET userName == users[r][userIdx[r]].UserName
       IN  trace' = [trace EXCEPT
                        ![r] = Append(@, IamCall("list_access_keys", userName, TRUE))]
    /\ pc' = [pc EXCEPT ![r] = AfterProviderCall(TRUE, "access_keys")]
    /\ error' = [error EXCEPT ![r] = "ClientError"]
    /\ UNCHANGED <<acctVars, keysResponse, accessKeyInfos, completedBefore,
                   clock, accessKeys, notifyKeyAgeDate,
                   deactivateKeyAgeDate, response, users, userIdx,
                   iamAccessKeys, keyPos>>

\* One round of "for accessKey in response['AccessKeyMetadata']": get_user
\* (in __getUserEmail) for the next key; after the last key the user's
\* accessKeyInfos go into the inventory and the user loop moves on.
GetUser(r) ==
    /\ pc[r] = "get_user"
    /\ LET userName == users[r][userIdx[r]].UserName
           md == keysResponse[r].AccessKeyMetadata
           accessKey == md[Len(accessKeyInfos[r]) + 1]
           infos == Append(accessKeyInfos[r],
                           AccessKeyInfo(accessKey,
                               GetUserEmail(GetUserResponse(userName))))
       IN  /\ trace' = [trace EXCEPT
                           ![r] = Append(@, IamCall("get_user", userName, FALSE))]
           /\ IF Len(infos) < Len(md)
              THEN /\ accessKeyInfos' = [accessKeyInfos EXCEPT ![r] = infos]
                   /\ pc' = [pc EXCEPT
                                ![r] = AfterProviderCall(FALSE, "get_user")]
                   /\ UNCHANGED <<keysResponse, iamAccessKeys, userIdx>>
              ELSE LET inv == AppendUserKeys(iamAccessKeys[r], userName, infos)
                   IN  /\ iamAccessKeys' = [iamAccessKeys EXCEPT ![r] = inv]
                       /\ accessKeyInfos' = [accessKeyInfos EXCEPT ![r] = <<>>]
                       /\ keysResponse' =
                             [keysResponse EXCEPT
                                 ![r] = [AccessKeyMetadata |-> <<>>]]
                       /\ userIdx' = [userIdx EXCEPT ![r] = @ + 1]
                       /\ pc' = [pc EXCEPT ![r] =
                                   AfterProviderCall(FALSE,
                                       PcAfterUser(users[r], userIdx[r] + 1,
                                                   inv))]
    /\ UNCHANGED <<acctVars, completedBefore,
                   clock, accessKeys, error, notifyKeyAgeDate,
                   deactivateKeyAgeDate, response, users, keyPos>>

\* get_user (in __getUserEmail, outside its try) raises.
GetUserRaises(r) ==
    /\ pc[r] = "get_user"
    /\ LET userName == users[r][userIdx[r]].UserName
       IN  trace' = [trace EXCEPT
                        ![r] = Append(@, IamCall("get_user", userName, TRUE))]
    /\ pc' = [pc EXCEPT ![r] = AfterProviderCall(TRUE, "get_user")]
    /\ error' = [error EXCEPT ![r] = "ClientError"]
    /\ UNCHANGED <<acctVars, keysResponse, accessKeyInfos, completedBefore,
                   clock, accessKeys, notifyKeyAgeDate,
                   deactivateKeyAgeDate, response, users, userIdx,
                   iamAccessKeys, keyPos>>

\* iamUser['UserName'] on an element of users that is a list: TypeError.
ListAccessKeysTypeError(r) ==
    /\ pc[r] = "access_keys"
    /\ "UserName" \notin DOMAIN users[r][userIdx[r]]
    /\ pc' = [pc EXCEPT ![r] = "failed"]
    /\ error' = [error EXCEPT ![r] = "TypeError"]
    /\ UNCHANGED <<acctVars, keysResponse, accessKeyInfos, completedBefore,
                   clock, accessKeys, notifyKeyAgeDate,
                   deactivateKeyAgeDate, response, users, userIdx,
                   iamAccessKeys, keyPos, trace>>


\* __identifyKeyAges, "if" branch with a contact: __notifyKeyAges is called.
NotifyKey(r) ==
    /\ pc[r] = "identify"
    /\ NotifyCondition(CurrentInfo(r), notifyKeyAgeDate[r], deactivateKeyAgeDate[r])
    /\ CurrentInfo(r).ContactDetails # ""
    /\ \E raised \in BOOLEAN :
          LET calls == NotifyKeyAges(environ.SOURCEMAIL, CurrentInfo(r), raised)
          IN  /\ trace' = [trace EXCEPT ![r] = @ \o calls]
              /\ pc' = [pc EXCEPT
                           ![r] = AfterSendEmail(
                                      calls[Len(calls)].raised,
                                      PcAfterKey(iamAccessKeys[r], keyPos[r]))]
    /\ keyPos' = [keyPos EXCEPT ![r] = NextKeyPos(iamAccessKeys[r], @)]
    /\ UNCHANGED <<acctVars, keysResponse, accessKeyInfos, completedBefore,
                   clock, accessKeys, error, notifyKeyAgeDate,
                   deactivateKeyAgeDate, response, users, userIdx,
                   iamAccessKeys>>

\* __identifyKeyAges, "if" branch without a contact: a warning, nothing else.
WarnNoContact(r) ==
    /\ pc[r] = "identify"
    /\ NotifyCondition(CurrentInfo(r), notifyKeyAgeDate[r], deactivateKeyAgeDate[r])
    /\ CurrentInfo(r).ContactDetails = ""
    /\ keyPos' = [keyPos EXCEPT ![r] = NextKeyPos(iamAccessKeys[r], @)]
    /\ pc' = [pc EXCEPT ![r] = PcAfterKey(iamAccessKeys[r], keyPos[r])]
    /\ UNCHANGED <<acctVars, keysResponse, accessKeyInfos, completedBefore,
                   clock, accessKeys, error, notifyKeyAgeDate,
                   deactivateKeyAgeDate, response, users, userIdx,
                   iamAccessKeys, trace>>

\* __identifyKeyAges, "elif" branch: update_access_key(Status='Inactive').
DeactivateKey(r) ==
    /\ pc[r] = "identify"
    /\ ~NotifyCondition(CurrentInfo(r), notifyKeyAgeDate[r], deactivateKeyAgeDate[r])
    /\ DeactivateCondition(CurrentInfo(r), deactivateKeyAgeDate[r])
    /\ \E raised \in BOOLEAN :
          /\ trace' = [trace EXCEPT
                          ![r] = Append(@, Call("update_access_key",
                                                CurrentEntry(r).UserName,
                                                CurrentInfo(r).AccessKeyId,
                                                "Inactive", NoMail, raised))]
          /\ error' = [error EXCEPT
                          ![r] = IF raised THEN "ClientError" ELSE @]
          /\ accessKeys' = IF raised THEN accessKeys
                           ELSE UpdateAccessKey(accessKeys,
                                                CurrentEntry(r).UserName,
                                                CurrentInfo(r).AccessKeyId,
                                                "Inactive")
          /\ pc' = [pc EXCEPT
                       ![r] = AfterProviderCall(raised,
                                  PcAfterKey(iamAccessKeys[r], keyPos[r]))]
          /\ keyPos' = [keyPos EXCEPT
                           ![r] = IF pc'[r] = "failed" THEN @
                                  ELSE NextKeyPos(iamAccessKeys[r], @)]
    /\ UNCHANGED <<acctVars, keysResponse, accessKeyInfos, completedBefore,
                   clock, notifyKeyAgeDate, deactivateKeyAgeDate,
                   response, users, userIdx, iamAccessKeys>>

\* __identifyKeyAges, neither branch: the key is left alone.
SkipKey(r) ==
    /\ pc[r] = "identify"
    /\ ~NotifyCondition(CurrentInfo(r), notifyKeyAgeDate[r], deactivateKeyAgeDate[r])
    /\ ~DeactivateCondition(CurrentInfo(r), deactivateKeyAgeDate[r])
    /\ keyPos' = [keyPos EXCEPT ![r] = NextKeyPos(iamAccessKeys[r], @)]
    /\ pc' = [pc EXCEPT ![r] = PcAfterKey(iamAccessKeys[r], keyPos[r])]
    /\ UNCHANGED <<acctVars, keysResponse, accessKeyInfos, completedBefore,
                   clock, accessKeys, error, notifyKeyAgeDate,
                   deactivateKeyAgeDate, response, users, userIdx,
                   iamAccessKeys, trace>>

Next ==
    \E r \in Runs :
        \/ Invoke(r)
        \/ InvokeValueError(r)
        \/ InvokeOverflowError(r)
        \/ GetDeactivateKeyAgeDate(r)
        \/ GetDeactivateKeyAgeDateOverflowError(r)
        \/ ListUsersFirst(r)
        \/ ListUsersNext(r)
        \/ ListAccessKeys(r)
        \/ ListAccessKeysRaises(r)
        \/ GetUser(r)
        \/ GetUserRaises(r)
        \/ ListAccessKeysTypeError(r)
        \/ NotifyKey(r)
        \/ WarnNoContact(r)
        \/ DeactivateKey(r)
        \/ SkipKey(r)

Spec == Init /\ [][Next]_vars

\* One invocation over a small account, with every listed SOURCEMAIL.
InitMail ==
    \/ InitWith({Environ(Unset, Unset)} \cup
                {Environ(Unset, EnvValue(m)) :
                    m \in AcceptedSourceMails \cup RejectedSourceMails},
                {MaxUsers},
                ContactOrNoTags,
                {"Active"} \X {30, 32, 40},
                {1})
    \/ InitPaged(ContactOrNoTags, {1})
    \/ InitNotifyKeyAge(NotifyKeyAgeTexts, {1})

SpecMail == InitMail /\ [][Next]_vars

\* Two invocations, one after the other or overlapping, over a small account.
InitTwo ==
    \/ InitWith({Environ(Unset, EnvValue(ValidSourceMail))},
                {MaxUsers},
                ContactTagged,
                {<<"Active", 32>>, <<"Active", 40>>, <<"Inactive", 40>>},
                Runs)
    \/ InitPaged(ContactTagged, Runs)
    \/ InitNotifyKeyAge(FewNotifyKeyAgeTexts, Runs)

SpecTwo == InitTwo /\ [][Next]_vars

\* ---------------------------------------------------------- properties

\* The (user name, accessKeyInfo) pairs of run r's inventory.
InventoryInfos(r) ==
    UNION {{<<iamAccessKeys[r][i].UserName,
              iamAccessKeys[r][i].AccessKeyInfos[j]>> :
               j \in DOMAIN iamAccessKeys[r][i].AccessKeyInfos} :
           i \in DOMAIN iamAccessKeys[r]}

\* Positions in run r's trace of the calls that concern key id.
UpdateCalls(r, id) ==
    {i \in DOMAIN trace[r] : /\ trace[r][i].api = "update_access_key"
                             /\ trace[r][i].AccessKeyId = id}

DispatchCalls(r, id) ==
    {i \in DOMAIN trace[r] : /\ trace[r][i].api = "notifyKeyAges"
                             /\ trace[r][i].AccessKeyId = id}

SendCalls(r, id) ==
    {i \in DOMAIN trace[r] : /\ trace[r][i].api = "send_email"
                             /\ trace[r][i].Subject[2] = id}

\* __getAwsIamUserList has returned in run r: a list_users call answered
\* and the last answer was not truncated.
Returned(r) ==
    /\ ~response[r].IsTruncated
    /\ \E i \in DOMAIN trace[r] :
          trace[r][i].api = "list_users" /\ ~trace[r][i].raised

\* C1 (as claimed): once __getAwsIamUserList has returned, users is the flat
\* sequence of every user record of every page, each exactly once.
C1_UsersFlatAndComplete ==
    \A r \in Runs : Returned(r) => users[r] = AllUsers

\* C2 (as claimed): in a completed run every Active key whose age is greater
\* than OR EQUAL TO the deactivate threshold gets exactly one
\* update_access_key(Status='Inactive') and no notification.
C2_Original_DeactivateAtOrPastThreshold ==
    \A r \in Runs : pc[r] = "done" =>
        \A p \in InventoryInfos(r) :
            (p[2].AccessKeyStatus = "Active"
             /\ p[2].CreateDate <= deactivateKeyAgeDate[r])
            => /\ Cardinality(UpdateCalls(r, p[2].AccessKeyId)) = 1
               /\ DispatchCalls(r, p[2].AccessKeyId) = {}

\* C2 (amended): in a completed run every key of the account is in the
\* inventory, and every Active key whose age is strictly greater than the
\* deactivate threshold (CreateDate < deactivateKeyAgeDate) gets exactly one
\* update_access_key call, for its owner and with Status Inactive, whether or
\* not its contact is empty, and no notification or e-mail.
C2_DeactivatePastThreshold ==
    \A r \in Runs : pc[r] = "done" =>
        /\ \A k \in DOMAIN accessKeys :
              \E p \in InventoryInfos(r) :
                  /\ p[1] = accessKeys[k].UserName
                  /\ p[2].AccessKeyId = accessKeys[k].AccessKeyId
                  /\ p[2].CreateDate = accessKeys[k].CreateDate
        /\ \A p \in InventoryInfos(r) :
              (p[2].AccessKeyStatus = "Active"
               /\ p[2].CreateDate < deactivateKeyAgeDate[r])
              => /\ Cardinality(UpdateCalls(r, p[2].AccessKeyId)) = 1
                 /\ \A i \in UpdateCalls(r, p[2].AccessKeyId) :
                       /\ trace[r][i].UserName = p[1]
                       /\ trace[r][i].Status = "Inactive"
                 /\ DispatchCalls(r, p[2].AccessKeyId) = {}
                 /\ SendCalls(r, p[2].AccessKeyId) = {}

\* C2 witness: a completed run deactivated an over-age key with no contact.
C2_Witness ==
    \E r \in Runs : /\ pc[r] = "done"
                    /\ \E p \in InventoryInfos(r) :
                          /\ p[2].AccessKeyStatus = "Active"
                          /\ p[2].CreateDate < deactivateKeyAgeDate[r]
                          /\ p[2].ContactDetails = ""
                          /\ UpdateCalls(r, p[2].AccessKeyId) # {}

\* C3: in a completed run every Active key whose age is strictly between the
\* two thresholds and whose contact is non-empty has exactly one call of
\* __notifyKeyAges, for that contact; the only send_email about the key is
\* the one that call makes, to that contact with the key id in the subject;
\* and no update_access_key call is made for the key.
C3_NotifyBetweenThresholds ==
    \A r \in Runs : pc[r] = "done" =>
        \A p \in InventoryInfos(r) :
            (/\ p[2].AccessKeyStatus = "Active"
             /\ p[2].CreateDate < notifyKeyAgeDate[r]
             /\ p[2].CreateDate > deactivateKeyAgeDate[r]
             /\ p[2].ContactDetails # "")
            => /\ Cardinality(DispatchCalls(r, p[2].AccessKeyId)) = 1
               /\ \A i \in DispatchCalls(r, p[2].AccessKeyId) :
                     /\ trace[r][i].To = <<p[2].ContactDetails>>
                     /\ SendCalls(r, p[2].AccessKeyId) \subseteq {i + 1}
                     /\ (i < Len(trace[r]) /\ trace[r][i + 1].api = "send_email")
                        => /\ trace[r][i + 1].To = <<p[2].ContactDetails>>
                           /\ trace[r][i + 1].Subject[2] = p[2].AccessKeyId
               /\ UpdateCalls(r, p[2].AccessKeyId) = {}

\* C3 witness: a completed run e-mailed the contact of such a key.
C3_Witness ==
    \E r \in Runs : /\ pc[r] = "done"
                    /\ \E p \in InventoryInfos(r) :
                          /\ p[2].AccessKeyStatus = "Active"
                          /\ p[2].CreateDate < notifyKeyAgeDate[r]
                          /\ p[2].CreateDate > deactivateKeyAgeDate[r]
                          /\ p[2].ContactDetails # ""
                          /\ SendCalls(r, p[2].AccessKeyId) # {}

\* C4: a key that is Inactive in the inventory is never acted upon, whatever
\* its age: no __notifyKeyAges call, no send_email, no update_access_key.
C4_InactiveNeverActedUpon ==
    \A r \in Runs : \A p \in InventoryInfos(r) :
        p[2].AccessKeyStatus = "Inactive"
        => /\ DispatchCalls(r, p[2].AccessKeyId) = {}
           /\ SendCalls(r, p[2].AccessKeyId) = {}
           /\ UpdateCalls(r, p[2].AccessKeyId) = {}

\* C4 witness: a completed run passed over an Inactive key older than the
\* deactivate threshold whose owner has a contact.
C4_Witness ==
    \E r \in Runs : /\ pc[r] = "done"
                    /\ \E p \in InventoryInfos(r) :
                          /\ p[2].AccessKeyStatus = "Inactive"
                          /\ p[2].CreateDate < deactivateKeyAgeDate[r]
                          /\ p[2].ContactDetails # ""

\* C5: a raised IAM call (list_users, list_access_keys, get_user,
\* update_access_key) is the last call of its run, the run has failed with
\* that error and acts no further; every update_access_key that returned
\* before the failure stays applied.
C5_ProviderErrorAbortsRun ==
    \A r \in Runs : \A i \in DOMAIN trace[r] :
        /\ (trace[r][i].api \in IamApis /\ trace[r][i].raised)
           => /\ i = Len(trace[r])
              /\ pc[r] = "failed"
              /\ error[r] = "ClientError"
        /\ (trace[r][i].api = "update_access_key" /\ ~trace[r][i].raised)
           => \E k \in DOMAIN accessKeys :
                 /\ accessKeys[k].AccessKeyId = trace[r][i].AccessKeyId
                 /\ accessKeys[k].Status = "Inactive"

\* C5 witness: update_access_key raised for a key after an earlier key of
\* the same run had been deactivated; the earlier key is Inactive and the
\* later one still Active.
C5_Witness ==
    \E r \in Runs : \E i, j \in DOMAIN trace[r] :
        /\ pc[r] = "failed"
        /\ i < j
        /\ trace[r][i].api = "update_access_key" /\ ~trace[r][i].raised
        /\ trace[r][j].api = "update_access_key" /\ trace[r][j].raised
        /\ \E k \in DOMAIN accessKeys :
              /\ accessKeys[k].AccessKeyId = trace[r][j].AccessKeyId
              /\ accessKeys[k].Status = "Active"

\* C6: a raised send_email never ends the run: a failed run did not fail in
\* send_email, and in a completed run every key classified after the failed
\* send was still acted upon (over-age Active keys got their
\* update_access_key, Active keys between the thresholds with a contact got
\* their __notifyKeyAges call).
C6_SendFailureSwallowed ==
    \A r \in Runs :
        /\ (pc[r] = "failed" /\ trace[r] # <<>>)
           => trace[r][Len(trace[r])].api # "send_email"
        /\ (pc[r] = "done"
            /\ \E i \in DOMAIN trace[r] :
                  trace[r][i].api = "send_email" /\ trace[r][i].raised)
           => \A p \in InventoryInfos(r) :
                 p[2].AccessKeyStatus = "Active"
                 => /\ p[2].CreateDate < deactivateKeyAgeDate[r]
                       => UpdateCalls(r, p[2].AccessKeyId) # {}
                    /\ (/\ p[2].CreateDate < notifyKeyAgeDate[r]
                        /\ p[2].CreateDate >= deactivateKeyAgeDate[r]
                        /\ p[2].ContactDetails # "")
                       => DispatchCalls(r, p[2].AccessKeyId) # {}

\* C6 witness: send_email raised for one key and the run went on to
\* deactivate a later key.
C6_Witness ==
    \E r \in Runs : \E i, j \in DOMAIN trace[r] :
        /\ i < j
        /\ trace[r][i].api = "send_email" /\ trace[r][i].raised
        /\ trace[r][j].api = "update_access_key" /\ ~trace[r][j].raised

\* The user's get_user record has a tag named Contact.
HasContactTag(userName) ==
    /\ "Tags" \in DOMAIN iamUsers[userName]
    /\ \E t \in DOMAIN iamUsers[userName].Tags :
          iamUsers[userName].Tags[t].Key = "Contact"

\* C9: in a completed run, an Active key strictly between the thresholds
\* whose owner has no tag named Contact has an empty contact, causes no
\* __notifyKeyAges call, no send_email and no update_access_key, and is
\* still Active.
C9_NoContactNoAction ==
    \A r \in Runs : pc[r] = "done" =>
        \A p \in InventoryInfos(r) :
            (/\ p[2].AccessKeyStatus = "Active"
             /\ p[2].CreateDate < notifyKeyAgeDate[r]
             /\ p[2].CreateDate > deactivateKeyAgeDate[r]
             /\ ~HasContactTag(p[1]))
            => /\ p[2].ContactDetails = ""
               /\ DispatchCalls(r, p[2].AccessKeyId) = {}
               /\ \A i \in DOMAIN trace[r] :
                     trace[r][i].api = "send_email"
                     => trace[r][i].Subject[2] # p[2].AccessKeyId
               /\ UpdateCalls(r, p[2].AccessKeyId) = {}
               /\ \A k \in DOMAIN accessKeys :
                     accessKeys[k].AccessKeyId = p[2].AccessKeyId
                     => accessKeys[k].Status = "Active"

\* C9 witness: a completed run met such a key of a user whose only tag is
\* not Contact, with a valid SOURCEMAIL configured.
C9_Witness ==
    \E r \in Runs : /\ pc[r] = "done"
                    /\ environ.SOURCEMAIL = EnvValue(ValidSourceMail)
                    /\ \E p \in InventoryInfos(r) :
                          /\ p[2].AccessKeyStatus = "Active"
                          /\ p[2].CreateDate < notifyKeyAgeDate[r]
                          /\ p[2].CreateDate > deactivateKeyAgeDate[r]
                          /\ "Tags" \in DOMAIN iamUsers[p[1]]
                          /\ ~HasContactTag(p[1])

\* SOURCEMAIL is set and re.match(mailPattern, sourceMail) matches.
SourceMailAccepted ==
    environ.SOURCEMAIL.set /\ MailPatternMatches(environ.SOURCEMAIL.value)

\* C7: send_email is called only with SOURCEMAIL set to an address that the
\* pattern matches, never one of the listed rejected addresses, and that
\* address is its Source; a __notifyKeyAges call made while SOURCEMAIL is
\* unset or does not match (as every listed rejected address) is followed
\* by no send_email and does not fail the run; with a matching SOURCEMAIL
\* (as every listed accepted address) the call does send.
C7_NoSendWithoutValidSender ==
    \A r \in Runs : \A i \in DOMAIN trace[r] :
        /\ trace[r][i].api = "send_email"
           => /\ SourceMailAccepted
              /\ environ.SOURCEMAIL.value \notin RejectedSourceMails
              /\ trace[r][i].Source = environ.SOURCEMAIL.value
        /\ trace[r][i].api = "notifyKeyAges"
           => /\ (\/ SourceMailAccepted
                  \/ /\ environ.SOURCEMAIL.set
                     /\ environ.SOURCEMAIL.value \in AcceptedSourceMails)
                 => i < Len(trace[r]) /\ trace[r][i + 1].api = "send_email"
              /\ (\/ ~SourceMailAccepted
                  \/ environ.SOURCEMAIL.value \in RejectedSourceMails)
                 => /\ i < Len(trace[r]) => trace[r][i + 1].api # "send_email"
                    /\ i = Len(trace[r]) => pc[r] # "failed"

\* C7 witness: a run completed after calling __notifyKeyAges with SOURCEMAIL
\* set to a rejected address, and sent nothing.
C7_Witness ==
    \E r \in Runs :
        /\ pc[r] = "done"
        /\ environ.SOURCEMAIL.set
        /\ environ.SOURCEMAIL.value \in RejectedSourceMails
        /\ \E i \in DOMAIN trace[r] : trace[r][i].api = "notifyKeyAges"
        /\ \A i \in DOMAIN trace[r] : trace[r][i].api # "send_email"

\* Runs q and r computed the same notify and deactivate dates.
SameDates(q, r) ==
    /\ notifyKeyAgeDate[q] = notifyKeyAgeDate[r]
    /\ deactivateKeyAgeDate[q] = deactivateKeyAgeDate[r]

\* C8: a run invoked after another run completed, with the same two dates,
\* sees every key that run deactivated as Inactive, makes no
\* update_access_key call and leaves every key's status as that run left it.
C8_SecondRunIdempotent ==
    \A r \in Runs : \A q \in completedBefore[r] :
        SameDates(q, r)
        => /\ \A i \in DOMAIN trace[r] : trace[r][i].api # "update_access_key"
           /\ \A p \in InventoryInfos(r) :
                 UpdateCalls(q, p[2].AccessKeyId) # {}
                 => p[2].AccessKeyStatus = "Inactive"
           /\ \A k \in DOMAIN accessKeys :
                 accessKeys[k].Status =
                    IF UpdateCalls(q, accessKeys[k].AccessKeyId) # {}
                    THEN "Inactive" ELSE accessKeys0[k].Status

\* C8 witness: the second run completed after a first run that had
\* deactivated a key, with the same dates.
C8_Witness ==
    \E r \in Runs : \E q \in completedBefore[r] :
        /\ pc[r] = "done"
        /\ SameDates(q, r)
        /\ \E i \in DOMAIN trace[q] :
              trace[q][i].api = "update_access_key" /\ ~trace[q][i].raised
        /\ \E p \in InventoryInfos(r) : p[2].AccessKeyStatus = "Active"

\* C10: when two runs with the same dates have both completed, however they
\* interleaved, every key has the status a single run leaves it in (Inactive
\* if it was Inactive or was Active and older than the deactivate threshold,
\* Active otherwise), and no key got more than two __notifyKeyAges calls or
\* more than two update_access_key calls in all.
C10_OverlappingRunsSameOutcome ==
    (pc[1] = "done" /\ pc[2] = "done" /\ SameDates(1, 2))
    => \A k \in DOMAIN accessKeys :
          /\ accessKeys[k].Status =
                IF accessKeys0[k].CreateDate < deactivateKeyAgeDate[1]
                THEN "Inactive" ELSE accessKeys0[k].Status
          /\ Cardinality(UpdateCalls(1, accessKeys[k].AccessKeyId))
             + Cardinality(UpdateCalls(2, accessKeys[k].AccessKeyId)) <= 2
          /\ Cardinality(DispatchCalls(1, accessKeys[k].AccessKeyId))
             + Cardinality(DispatchCalls(2, accessKeys[k].AccessKeyId)) <= 2

\* C10 witness: two overlapping runs with the same dates both completed,
\* both called update_access_key for one key and both notified for another.
C10_Witness ==
    /\ pc[1] = "done" /\ pc[2] = "done" /\ SameDates(1, 2)
    /\ completedBefore[2] = {}
    /\ \E k \in DOMAIN accessKeys :
          /\ UpdateCalls(1, accessKeys[k].AccessKeyId) # {}
          /\ UpdateCalls(2, accessKeys[k].AccessKeyId) # {}
    /\ \E k \in DOMAIN accessKeys :
          /\ DispatchCalls(1, accessKeys[k].AccessKeyId) # {}
          /\ DispatchCalls(2, accessKeys[k].AccessKeyId) # {}

=============================================================================
